---- MODULE Spec2Model ----
(***************************************************************************)
(* Model of the azure-queue-consumer poll / process / delete loop          *)
(* (src/index.js).  The queue service client and the user handler are the  *)
(* environment: their completions are separate steps.  One step of the     *)
(* model is one run-to-completion turn of the JavaScript event loop.       *)
(***************************************************************************)
EXTENDS Integers, Sequences, FiniteSets, TLC

(* ---- bounds of the model ---- *)
\* largest number of poll loops (chains of fetch -> batch/timer -> fetch)
\* that may be alive at once; the code itself has no such limit
MaxLoops == 2
\* largest batchSize option the model supplies
MaxBatchSize == 2
\* largest number of messages the queue hands out that are unresolved at once
MaxInFlight == 2

(* ---- program constants ---- *)
DefaultBatchSize == 1
DefaultPollDelaySeconds == 1
DefaultMaximumExecutionTimeSeconds == 10
DefaultAuthenticationErrorTimeoutSeconds == 10
MinBatchSize == 1
BatchSizeLimit == 10
ForbiddenStatus == 403
MsPerSecond == 1000

VARIABLES
    config,   \* the fields the constructor sets from the options
    stopped,  \* this.stopped
    loops,    \* the poll loops in flight: pending fetch, batch or timer
    op,       \* the operation the last step performed, with its arguments
    out,      \* the calls and emits made by the last step, in order
    opts,     \* history: the options the constructor was called with
    stoppedEmits  \* history: `stopped` emits since the last start() or stop()

vars == <<config, stopped, loops, op, out, opts, stoppedEmits>>

\* an option is either not supplied (undefined) or supplied with a value
Absent == [given |-> FALSE, v |-> 0]
AbsentName == [given |-> FALSE, v |-> ""]
Supplied(v) == [given |-> TRUE, v |-> v]

\* a null / undefined error argument of the getMessages callback
NoErr == [statusCode |-> 0, code |-> ""]
\* a null / undefined error argument of a series callback
NoFailure == [name |-> "", origin |-> ""]
\* a null / undefined response argument
NoResponse == [given |-> FALSE, msgs |-> <<>>]

Loops == 1..MaxLoops

(* ---- values ---- *)
\* JavaScript truthiness of a numeric option and of a string / function option
Truthy(o) == o.given /\ o.v # 0
TruthyName(o) == o.given /\ o.v # ""

\* a || b for a numeric option a and a default b
OrElse(o, b) == IF Truthy(o) THEN o.v ELSE b

QueueServiceErrorName == "QueueServiceError"

\* new QueueServiceError(...): name is the class name
QueueServiceError(origin) == [name |-> QueueServiceErrorName, origin |-> origin]

\* new Error(...)
PlainError(origin) == [name |-> "Error", origin |-> origin]

validate(options) ==
    /\ TruthyName(options.queueName)
    /\ TruthyName(options.handleMessage)
    /\ ~ (options.batchSize.given
            /\ (options.batchSize.v > BatchSizeLimit \/ options.batchSize.v < MinBatchSize))

\* only the status code is looked at
isAuthenticationErrorStatusOnly(err) ==
    err.statusCode = ForbiddenStatus

\* every error of the queue service counts as an authentication error
isAuthenticationErrorAnyError(err) ==
    err # NoErr

isAuthenticationError(err) ==
    err.statusCode = ForbiddenStatus \/ err.code = "CredentialsError"

Constructor(options) ==
    [ queueName |-> options.queueName.v,
      batchSize |-> OrElse(options.batchSize, DefaultBatchSize),
      pollDelaySeconds |-> OrElse(options.pollDelaySeconds, DefaultPollDelaySeconds),
      maximumExecutionTimeSeconds |->
          OrElse(options.maximumExecutionTimeSeconds, DefaultMaximumExecutionTimeSeconds),
      authenticationErrorTimeoutSeconds |->
          OrElse(options.authenticationErrorTimeoutSeconds,
                 DefaultAuthenticationErrorTimeoutSeconds) ]

(* ---- the environment's inputs ---- *)
Options ==
    [ queueName : {Supplied("q")},
      handleMessage : {Supplied("fn")},
      batchSize : {Absent, Supplied(MaxBatchSize)},
      pollDelaySeconds : {Absent},
      maximumExecutionTimeSeconds : {Absent},
      authenticationErrorTimeoutSeconds : {Absent} ]

\* errors a fetch may report
FetchErrors ==
    { [statusCode |-> ForbiddenStatus, code |-> "AuthenticationFailed"],
      [statusCode |-> 500, code |-> "CredentialsError"],
      [statusCode |-> 500, code |-> "InternalError"] }

\* what the handler does before it returns: nothing yet (it completes in a
\* later turn), done() with no error, a throw, or done() and then a throw;
\* an error passed to done is modelled as passed in a later turn
SyncOutcomes == {"pending", "done", "throw", "doneThenThrow"}

\* what a handler that returned without completing reports later
AsyncOutcomes == {"done", "doneErr", "doneQsErr"}

\* a message of a response: identifier and receipt token, and the progress
\* of its handle-then-delete series
Message(i) ==
    [ messageId |-> i, popReceipt |-> 100 + i,
      pc |-> "new",   \* new, handling, deleting, resolved, stuck
      recv |-> 0,     \* message_received emits
      calls |-> 0,    \* handler invocations
      evs |-> 0,      \* outcome events emitted for it
      cb |-> 0 ]      \* times the batch barrier was signalled for it

Response(n) == [i \in 1..n |-> Message(i)]

IdleLoop == [st |-> "idle", msgs |-> <<>>, delay |-> 0]

(* ---- outputs ---- *)
Out(e, l, m, a, b, err) == [e |-> e, l |-> l, m |-> m, a |-> a, b |-> b, err |-> err]
Emit(e, l, m, err) == Out(e, l, m, 0, 0, err)

\* the fetch is issued without looking at the stopped flag
pollUnguarded(l, isStopped, cfg) ==
    [ loop |-> [st |-> "fetching", msgs |-> <<>>, delay |-> 0],
      out |-> << Out("getMessages", l, 0, cfg.batchSize,
                     cfg.maximumExecutionTimeSeconds * MsPerSecond, "") >> ]

(* ---- Consumer._poll ---- *)
\* result: the loop's next record and the outputs
poll(l, isStopped, cfg) ==
    IF ~ isStopped
    THEN [ loop |-> [st |-> "fetching", msgs |-> <<>>, delay |-> 0],
           out |-> << Out("getMessages", l, 0, cfg.batchSize,
                          cfg.maximumExecutionTimeSeconds * MsPerSecond, "") >> ]
    ELSE [ loop |-> IdleLoop, out |-> << Emit("stopped", l, 0, "") >> ]

(* ---- Consumer._processMessage: the final callback of the series ---- *)
\* eff is [msgs, out, thrown]: the batch, the outputs so far, and whether
\* an exception is propagating out of the current turn
finalCallback(eff, l, i, err) ==
    LET id == eff.msgs[i].messageId
        ev == IF err # NoFailure
              THEN IF err.name = QueueServiceErrorName
                   THEN Emit("error", l, id, err.origin)
                   ELSE Emit("processing_error", l, id, err.origin)
              ELSE Emit("message_processed", l, id, "")
    IN  [eff EXCEPT !.msgs[i].pc = "resolved",
                    !.msgs[i].evs = @ + 1,
                    !.msgs[i].cb = @ + 1,
                    !.out = Append(@, ev)]

\* every delete is called with the receipt of the batch's first message
deleteMessageFirstReceipt(eff, l, i) ==
    LET m == eff.msgs[i]
    IN  [eff EXCEPT !.msgs[i].pc = "deleting",
                    !.out = Append(@, Out("deleteMessage", l, m.messageId,
                                          m.messageId, eff.msgs[1].popReceipt, ""))]

(* ---- Consumer._deleteMessage: the call, and its callback ---- *)
deleteMessage(eff, l, i) ==
    LET m == eff.msgs[i]
    IN  [eff EXCEPT !.msgs[i].pc = "deleting",
                    !.out = Append(@, Out("deleteMessage", l, m.messageId,
                                          m.messageId, m.popReceipt, ""))]

\* the delete failure is passed on as a plain Error
deleteMessageCallbackPlain(eff, l, i, failed) ==
    IF failed
    THEN finalCallback(eff, l, i, PlainError("delete"))
    ELSE finalCallback(eff, l, i, NoFailure)

deleteMessageCallback(eff, l, i, failed) ==
    IF failed
    THEN finalCallback(eff, l, i, QueueServiceError("delete"))
    ELSE finalCallback(eff, l, i, NoFailure)

\* async.series: the handler task's done(err) runs the delete task, or
\* goes to the final callback with the error
handlerDone(eff, l, i, err) ==
    IF err = NoFailure
    THEN deleteMessage(eff, l, i)
    ELSE finalCallback(eff, l, i, err)

\* the error a handler outcome passes to done
OutcomeError(oc) ==
    CASE oc = "done"      -> NoFailure
      [] oc = "doneErr"   -> PlainError("handler")
      [] oc = "doneQsErr" -> [name |-> QueueServiceErrorName, origin |-> "handler"]
      [] oc = "throw"     -> PlainError("handlerThrow")

(* ---- Consumer._processMessage ---- *)
processMessage(eff, l, i, oc) ==
    LET id == eff.msgs[i].messageId
        e1 == [eff EXCEPT !.msgs[i].recv = @ + 1,
                          !.msgs[i].calls = @ + 1,
                          !.out = @ \o << Emit("message_received", l, id, ""),
                                          Out("handleMessage", l, id, 0, 0, "") >>]
    IN  CASE oc = "pending" -> [e1 EXCEPT !.msgs[i].pc = "handling"]
          [] oc = "doneThenThrow" ->
                \* done() was taken by the series, which has not yet moved on;
                \* the catch block calls done again and the series throws
                \* "Callback was already called" out of the turn
                [e1 EXCEPT !.msgs[i].pc = "stuck", !.thrown = TRUE]
          [] OTHER -> handlerDone(e1, l, i, OutcomeError(oc))

\* async.each: the iteratee is called for each message in order; an
\* exception leaves the rest of the batch undispatched
RECURSIVE each(_, _, _, _)
each(eff, l, outcomes, i) ==
    IF i > Len(eff.msgs) \/ eff.thrown
    THEN eff
    ELSE each(processMessage(eff, l, i, outcomes[i]), l, outcomes, i + 1)

Completed(msgs) == Cardinality({i \in 1..Len(msgs) : msgs[i].cb > 0})

\* the barrier opens at the first message that signals
eachCallbackEarly(eff, l, isStopped, cfg) ==
    IF Completed(eff.msgs) >= 1
    THEN LET p == poll(l, isStopped, cfg)
         IN  [ loop |-> p.loop,
               out |-> eff.out \o << Emit("response_processed", l, 0, "") >> \o p.out ]
    ELSE [ loop |-> [st |-> IF eff.thrown THEN "dead" ELSE "dispatching",
                     msgs |-> eff.msgs, delay |-> 0],
           out |-> eff.out ]

\* async.each's callback (lines 102-106), run when the last message of the
\* batch has signalled; result: the loop's next record and the outputs
eachCallback(eff, l, isStopped, cfg) ==
    IF Completed(eff.msgs) = Len(eff.msgs)
    THEN LET p == poll(l, isStopped, cfg)
         IN  [ loop |-> p.loop,
               out |-> eff.out \o << Emit("response_processed", l, 0, "") >> \o p.out ]
    ELSE [ loop |-> [st |-> IF eff.thrown THEN "dead" ELSE "dispatching",
                     msgs |-> eff.msgs, delay |-> 0],
           out |-> eff.out ]

\* an empty response repolls at once instead of arming the poll delay
handleQueueServiceResponseNoDelay(l, err, response, outcomes, isStopped, cfg) ==
    LET out0 == IF err # NoErr THEN << Emit("error", l, 0, "receive") >> ELSE <<>>
    IN  IF response.given /\ Len(response.msgs) > 0
        THEN eachCallback(
                 each([msgs |-> response.msgs, out |-> out0, thrown |-> FALSE],
                      l, outcomes, 1),
                 l, isStopped, cfg)
        ELSE IF err # NoErr /\ isAuthenticationError(err)
        THEN LET d == cfg.authenticationErrorTimeoutSeconds * MsPerSecond
             IN  [ loop |-> [st |-> "waiting", msgs |-> <<>>, delay |-> d],
                   out |-> Append(out0, Out("setTimeout", l, 0, d, 0, "")) ]
        ELSE LET p == poll(l, isStopped, cfg)
             IN  [ loop |-> p.loop, out |-> out0 \o p.out ]

\* a fetch error takes precedence over the messages that came with it
handleQueueServiceResponseErrorFirst(l, err, response, outcomes, isStopped, cfg) ==
    LET out0 == IF err # NoErr THEN << Emit("error", l, 0, "receive") >> ELSE <<>>
    IN  IF err = NoErr /\ response.given /\ Len(response.msgs) > 0
        THEN eachCallback(
                 each([msgs |-> response.msgs, out |-> out0, thrown |-> FALSE],
                      l, outcomes, 1),
                 l, isStopped, cfg)
        ELSE IF err # NoErr /\ isAuthenticationError(err)
        THEN LET d == cfg.authenticationErrorTimeoutSeconds * MsPerSecond
             IN  [ loop |-> [st |-> "waiting", msgs |-> <<>>, delay |-> d],
                   out |-> Append(out0, Out("setTimeout", l, 0, d, 0, "")) ]
        ELSE LET d == cfg.pollDelaySeconds * MsPerSecond
             IN  [ loop |-> [st |-> "waiting", msgs |-> <<>>, delay |-> d],
                   out |-> Append(out0, Out("setTimeout", l, 0, d, 0, "")) ]

(* ---- Consumer._handleQueueServiceResponse ---- *)
handleQueueServiceResponse(l, err, response, outcomes, isStopped, cfg) ==
    LET out0 == IF err # NoErr THEN << Emit("error", l, 0, "receive") >> ELSE <<>>
    IN  IF response.given /\ Len(response.msgs) > 0
        THEN eachCallback(
                 each([msgs |-> response.msgs, out |-> out0, thrown |-> FALSE],
                      l, outcomes, 1),
                 l, isStopped, cfg)
        ELSE IF err # NoErr /\ isAuthenticationError(err)
        THEN LET d == cfg.authenticationErrorTimeoutSeconds * MsPerSecond
             IN  [ loop |-> [st |-> "waiting", msgs |-> <<>>, delay |-> d],
                   out |-> Append(out0, Out("setTimeout", l, 0, d, 0, "")) ]
        ELSE LET d == cfg.pollDelaySeconds * MsPerSecond
             IN  [ loop |-> [st |-> "waiting", msgs |-> <<>>, delay |-> d],
                   out |-> Append(out0, Out("setTimeout", l, 0, d, 0, "")) ]

Init ==
    /\ opts \in Options
    /\ validate(opts)
    /\ config = Constructor(opts)
    /\ stopped = TRUE
    /\ loops = [l \in Loops |-> IdleLoop]
    /\ op = [name |-> "new"]
    /\ out = <<>>
    /\ stoppedEmits = 0

\* the fields before any consumer has been constructed
NoConsumer ==
    [ queueName |-> "", batchSize |-> 0, pollDelaySeconds |-> 0,
      maximumExecutionTimeSeconds |-> 0,
      authenticationErrorTimeoutSeconds |-> 0 ]

\* start() and stop() are methods: they need a constructed consumer
Constructed == config # NoConsumer

FreeLoops == {l \in Loops : loops[l].st = "idle"}

\* an exception left a turn uncaught: Node ends the process, nothing runs after
Crashed == \E l \in Loops : loops[l].st = "dead"

\* start() without the stopped check: every call polls
startUnguarded ==
    /\ Constructed
    /\ ~ Crashed
    /\ op' = [name |-> "start"]
    /\ FreeLoops # {}
    /\ stopped' = FALSE
    /\ \E l \in {x \in FreeLoops : \A y \in FreeLoops : x <= y} :
          \E r \in {poll(l, stopped', config)} :
              /\ loops' = [loops EXCEPT ![l] = r.loop]
              /\ out' = r.out
    /\ stoppedEmits' = 0
    /\ UNCHANGED <<config, opts>>

(* ---- Consumer.start ---- *)
start ==
    /\ Constructed
    /\ ~ Crashed
    /\ op' = [name |-> "start"]
    /\ IF stopped
       THEN /\ FreeLoops # {}
            /\ stopped' = FALSE
            /\ \E l \in {x \in FreeLoops : \A y \in FreeLoops : x <= y} :
                  \E r \in {poll(l, stopped', config)} :
                      /\ loops' = [loops EXCEPT ![l] = r.loop]
                      /\ out' = r.out
       ELSE /\ out' = <<>>
            /\ UNCHANGED <<stopped, loops>>
    /\ stoppedEmits' = 0
    /\ UNCHANGED <<config, opts>>

(* ---- Consumer.stop ---- *)
stop ==
    /\ Constructed
    /\ ~ Crashed
    /\ op' = [name |-> "stop"]
    /\ stopped' = TRUE
    /\ out' = <<>>
    /\ stoppedEmits' = 0
    /\ UNCHANGED <<config, loops, opts>>

\* the messages of loop l that have not resolved
Unresolved(l) == {i \in 1..Len(loops[l].msgs) : loops[l].msgs[i].pc # "resolved"}

RECURSIVE InFlight(_)
InFlight(l) == IF l = 0 THEN 0 ELSE Cardinality(Unresolved(l)) + InFlight(l - 1)

\* the responses the queue service may give to a fetch of up to batchSize messages
Responses ==
    {NoResponse} \cup
    { [given |-> TRUE, msgs |-> Response(n)] :
        n \in { k \in 0..config.batchSize : k + InFlight(MaxLoops) <= MaxInFlight } }

\* what the handlers of a response do before they return; a handler after
\* one that throws out of the turn is never invoked, so it does nothing
Outcomes(n) ==
    { f \in [1..n -> SyncOutcomes] :
        \A i, j \in 1..n : (i < j /\ f[i] = "doneThenThrow") => f[j] = "pending" }

\* the step a callback's result makes
Apply(l, r) ==
    /\ loops' = [loops EXCEPT ![l] = r.loop]
    /\ out' = r.out
    /\ stoppedEmits' =
          stoppedEmits + Cardinality({k \in 1..Len(r.out) : r.out[k].e = "stopped"})
    /\ UNCHANGED <<config, stopped, opts>>

(* ---- the getMessages callback runs with one of the given responses ---- *)
GetMessagesCallbackWith(responses) ==
    /\ ~ Crashed
    /\ \E l \in Loops :
          /\ loops[l].st = "fetching"
          /\ \E err \in FetchErrors \cup {NoErr}, response \in responses :
                \E outcomes \in Outcomes(Len(response.msgs)) :
                    \E r \in {handleQueueServiceResponse(l, err, response, outcomes,
                                                         stopped, config)} :
                        /\ Apply(l, r)
                        /\ op' = [name |-> "getMessagesCallback", l |-> l, err |-> err,
                                  given |-> response.given, n |-> Len(response.msgs),
                                  outcomes |-> outcomes]

(* ---- the getMessages callback runs ---- *)
GetMessagesCallback == GetMessagesCallbackWith(Responses)

\* the loop's batch as the effect record a callback starts from
Batch(l) == [msgs |-> loops[l].msgs, out |-> <<>>, thrown |-> FALSE]

(* ---- a handler that returned without completing calls done ---- *)
HandlerCallback ==
    /\ ~ Crashed
    /\ \E l \in Loops : \E i \in 1..Len(loops[l].msgs) :
          /\ loops[l].msgs[i].pc = "handling"
          /\ \E oc \in AsyncOutcomes :
                \E r \in {eachCallback(handlerDone(Batch(l), l, i, OutcomeError(oc)),
                                       l, stopped, config)} :
                    /\ Apply(l, r)
                    /\ op' = [name |-> "handlerCallback", l |-> l, i |-> i, oc |-> oc]

(* ---- the deleteMessage callback runs ---- *)
DeleteMessageCallback ==
    /\ ~ Crashed
    /\ \E l \in Loops : \E i \in 1..Len(loops[l].msgs) :
          /\ loops[l].msgs[i].pc = "deleting"
          /\ \E failed \in BOOLEAN :
                \E r \in {eachCallback(deleteMessageCallback(Batch(l), l, i, failed),
                                       l, stopped, config)} :
                    /\ Apply(l, r)
                    /\ op' = [name |-> "deleteMessageCallback", l |-> l, i |-> i,
                              failed |-> failed]

(* ---- a delay timer fires: setTimeout's callback is _poll ---- *)
TimerFires ==
    /\ ~ Crashed
    /\ \E l \in Loops :
          /\ loops[l].st = "waiting"
          /\ \E r \in {poll(l, stopped, config)} :
                /\ Apply(l, r)
                /\ op' = [name |-> "timerFires", l |-> l]

Next ==
    \/ start
    \/ stop
    \/ GetMessagesCallback
    \/ HandlerCallback
    \/ DeleteMessageCallback
    \/ TimerFires

Spec == Init /\ [][Next]_vars

(* ---- construction with any options, then an empty queue ---- *)

\* the options a caller may pass, valid or not
AnyOptions ==
    [ queueName : {AbsentName, Supplied("q")},
      handleMessage : {AbsentName, Supplied("fn")},
      batchSize : {Absent, Supplied(MinBatchSize - 1), Supplied(MaxBatchSize),
                   Supplied(BatchSizeLimit), Supplied(BatchSizeLimit + 1)},
      pollDelaySeconds : {Absent, Supplied(0), Supplied(DefaultPollDelaySeconds + 2)},
      maximumExecutionTimeSeconds :
          {Absent, Supplied(DefaultMaximumExecutionTimeSeconds + 5)},
      authenticationErrorTimeoutSeconds :
          {Absent, Supplied(0), Supplied(DefaultAuthenticationErrorTimeoutSeconds + 2)} ]

\* before `new Consumer(opts)`: no consumer, nothing in flight
InitConstruct ==
    /\ opts \in AnyOptions
    /\ config = NoConsumer
    /\ stopped = FALSE
    /\ loops = [l \in Loops |-> IdleLoop]
    /\ op = [name |-> "none", threw |-> FALSE]
    /\ out = <<>>
    /\ stoppedEmits = 0

(* ---- new Consumer(opts): validate first, then assign the fields ---- *)
Construct ==
    /\ op.name = "none"
    /\ IF validate(opts)
       THEN /\ config' = Constructor(opts)
            /\ stopped' = TRUE
            /\ op' = [name |-> "construct", threw |-> FALSE]
       ELSE /\ op' = [name |-> "construct", threw |-> TRUE]
            /\ UNCHANGED <<config, stopped>>
    /\ out' = <<>>
    /\ UNCHANGED <<loops, opts, stoppedEmits>>

(* ---- the getMessages callback runs on an empty queue ---- *)
GetMessagesCallbackEmpty ==
    GetMessagesCallbackWith({r \in Responses : r.msgs = <<>>})

NextConstruct ==
    \/ Construct
    \/ start
    \/ stop
    \/ GetMessagesCallbackEmpty
    \/ TimerFires

SpecConstruct == InitConstruct /\ [][NextConstruct]_vars

(* ======================= properties ======================= *)
\* the number of outputs named e in the outputs o of a step
Count(o, e) == Cardinality({k \in 1..Len(o) : o[k].e = e})

\* the number of outputs named e for message m of loop l
CountFor(o, e, l, m) ==
    Cardinality({k \in 1..Len(o) : o[k].e = e /\ o[k].l = l /\ o[k].m = m})

AllResolved == \A l \in Loops : Unresolved(l) = {}

\* C1: at every instant the outstanding fetches and the pending delay
\* timers together number at most one, whatever start() and stop() calls
\* are interleaved with the completions.
AtMostOneFetchOrTimer ==
    Cardinality({l \in Loops : loops[l].st \in {"fetching", "waiting"}}) <= 1

\* C2: start() on a stopped consumer clears the stopped flag and issues
\* exactly one fetch and nothing else; start() on a running consumer
\* changes no state and makes no call, whatever the loops are doing.
StartContract ==
    [][ op'.name = "start" =>
          IF stopped
          THEN /\ ~ stopped'
               /\ Len(out') = 1
               /\ out'[1].e = "getMessages"
               /\ \E l \in Loops :
                     /\ loops[l].st = "idle"
                     /\ loops'[l].st = "fetching"
                     /\ \A k \in Loops \ {l} : loops'[k] = loops[k]
               /\ config' = config
          ELSE /\ out' = <<>>
               /\ UNCHANGED <<stopped, loops, config>> ]_vars

\* start() was called on a running consumer while a batch was being processed
StartWhileRunningWitness ==
    /\ op.name = "start"
    /\ out = <<>>
    /\ ~ stopped
    /\ \E l \in Loops : loops[l].st = "dispatching"

\* C3: after a stop() that no start() follows, `stopped` is emitted only
\* once every message already fetched has been handled and resolved.
StoppedOnlyAfterBatch ==
    (stopped /\ Count(out, "stopped") > 0) => AllResolved

\* C4: a fetch is issued only when no message of an earlier batch is
\* still unresolved, stop() and start() calls during a batch included.
FetchOnlyAfterBarrier ==
    Count(out, "getMessages") > 0 => AllResolved

\* message i of the response was handed to its handler in the dispatch turn
Dispatched(o, i) == \A j \in 1..(i - 1) : o.outcomes[j] # "doneThenThrow"

\* no outcome event for message m of loop l among the outputs o
NoOutcome(o, l, m) ==
    /\ CountFor(o, "message_processed", l, m) = 0
    /\ CountFor(o, "processing_error", l, m) = 0
    /\ CountFor(o, "error", l, m) = 0

\* C5: on a consumer that has not been stopped, a fetch of N >= 1 messages
\* whose handlers and deletes all succeed gives one message_received per
\* message in the dispatch turn, one delete call per message when its
\* handler completes, one message_processed per message when its delete
\* completes, and response_processed exactly once, in the turn that
\* resolves the last message, followed at once by the next fetch with no
\* delay timer (a stopped consumer emits `stopped` there instead).
BatchSuccessContract ==
    [][ /\ (op'.name = "getMessagesCallback" /\ op'.n >= 1) =>
              \A i \in 1..op'.n :
                  /\ Dispatched(op', i) =>
                        /\ CountFor(out', "message_received", op'.l, i) = 1
                        /\ CountFor(out', "handleMessage", op'.l, i) = 1
                  /\ (Dispatched(op', i) /\ op'.outcomes[i] = "done") =>
                        /\ CountFor(out', "deleteMessage", op'.l, i) = 1
                        /\ NoOutcome(out', op'.l, i)
                        /\ Count(out', "response_processed") = 0
        /\ (op'.name = "handlerCallback" /\ op'.oc = "done") =>
              /\ Len(out') = 1
              /\ out'[1] = Out("deleteMessage", op'.l, op'.i,
                               loops[op'.l].msgs[op'.i].messageId,
                               loops[op'.l].msgs[op'.i].popReceipt, "")
        /\ (op'.name = "deleteMessageCallback" /\ ~ op'.failed) =>
              /\ out'[1] = Emit("message_processed", op'.l, op'.i, "")
              /\ IF Unresolved(op'.l) = {op'.i}
                 THEN /\ Len(out') = 3
                      /\ out'[2] = Emit("response_processed", op'.l, 0, "")
                      /\ out'[3].e = IF stopped THEN "stopped" ELSE "getMessages"
                      /\ loops'[op'.l].st = IF stopped THEN "idle" ELSE "fetching"
                 ELSE /\ Len(out') = 1
                      /\ loops'[op'.l].st = "dispatching" ]_vars

\* the second message of a batch is deleted last, the batch is reported
\* processed and the next fetch follows in the same turn
BatchSuccessWitness ==
    /\ op.name = "deleteMessageCallback"
    /\ ~ op.failed
    /\ op.i = 2
    /\ Len(out) = 3
    /\ out[2].e = "response_processed"
    /\ out[3].e = "getMessages"
    /\ loops[op.l].st = "fetching"

\* C6: a fetch that completes with no error and no message (an empty or an
\* absent response) emits nothing, arms exactly one timer of
\* pollDelaySeconds, and the loop fetches again only when that timer fires.
EmptyFetchContract ==
    [][ /\ (op'.name = "getMessagesCallback" /\ op'.err = NoErr /\ op'.n = 0) =>
              /\ out' = << Out("setTimeout", op'.l, 0,
                               config.pollDelaySeconds * 1000, 0, "") >>
              /\ loops'[op'.l].st = "waiting"
              /\ loops'[op'.l].delay = config.pollDelaySeconds * 1000
        /\ \A l \in Loops :
              (loops[l].st = "waiting" /\ loops'[l] # loops[l]) =>
                  /\ op'.name = "timerFires"
                  /\ op'.l = l
                  /\ Len(out') = 1
                  /\ out'[1].e = IF stopped THEN "stopped" ELSE "getMessages" ]_vars

\* an absent response without error left the loop waiting on its timer
EmptyFetchWitness ==
    /\ op.name = "getMessagesCallback"
    /\ op.err = NoErr
    /\ ~ op.given
    /\ loops[op.l].st = "waiting"

\* C7: a fetch that completes with an authentication error (statusCode 403
\* or code CredentialsError) and no message emits exactly one `error` and
\* arms a timer of authenticationErrorTimeoutSeconds, not pollDelaySeconds.
AuthErrorContract ==
    ( /\ op.name = "getMessagesCallback"
      /\ op.n = 0
      /\ (op.err.statusCode = 403 \/ op.err.code = "CredentialsError") ) =>
        /\ out = << Emit("error", op.l, 0, "receive"),
                    Out("setTimeout", op.l, 0,
                        config.authenticationErrorTimeoutSeconds * 1000, 0, "") >>
        /\ loops[op.l].st = "waiting"
        /\ loops[op.l].delay = config.authenticationErrorTimeoutSeconds * 1000
        /\ (config.authenticationErrorTimeoutSeconds # config.pollDelaySeconds
              => loops[op.l].delay # config.pollDelaySeconds * 1000)

\* a CredentialsError without the 403 status left the loop waiting
AuthErrorWitness ==
    /\ op.name = "getMessagesCallback"
    /\ op.n = 0
    /\ op.err.code = "CredentialsError"
    /\ op.err.statusCode # 403
    /\ loops[op.l].st = "waiting"

\* message m of loop l got processing_error, and nothing else
OnlyProcessingError(o, l, m) ==
    /\ CountFor(o, "processing_error", l, m) = 1
    /\ CountFor(o, "error", l, m) = 0
    /\ CountFor(o, "message_processed", l, m) = 0
    /\ CountFor(o, "deleteMessage", l, m) = 0

\* C8: a failure of the user handler, thrown or passed to the completion
\* callback, whatever the error's name, gives processing_error for that
\* message, never error or message_processed, and no delete call.
HandlerFailureIsProcessingError ==
    /\ (op.name = "handlerCallback" /\ op.oc \in {"doneErr", "doneQsErr"}) =>
          OnlyProcessingError(out, op.l, op.i)
    /\ op.name = "getMessagesCallback" =>
          \A i \in 1..op.n :
              (Dispatched(op, i) /\ op.outcomes[i] = "throw") =>
                  OnlyProcessingError(out, op.l, i)

\* C9: when the handler succeeded and the delete fails, `error` is emitted
\* with the delete failure and the message, and neither processing_error
\* nor message_processed is emitted for it.
DeleteFailureIsError ==
    (op.name = "deleteMessageCallback" /\ op.failed) =>
        /\ Len(out) >= 1
        /\ out[1] = Emit("error", op.l, op.i, "delete")
        /\ CountFor(out, "error", op.l, op.i) = 1
        /\ CountFor(out, "processing_error", op.l, op.i) = 0
        /\ CountFor(out, "message_processed", op.l, op.i) = 0

\* a delete failed while a sibling message was still unresolved
DeleteFailureWitness ==
    /\ op.name = "deleteMessageCallback"
    /\ op.failed
    /\ loops[op.l].st = "dispatching"
    /\ loops[op.l].msgs[op.i].pc = "resolved"

\* C10: every message handed to the handler resolves exactly once: when
\* its handler has returned and neither its callback nor its delete is
\* pending, exactly one outcome event was emitted for it and the batch
\* barrier was signalled exactly once.
ResolvesExactlyOnce ==
    \A l \in Loops : \A i \in 1..Len(loops[l].msgs) :
        LET m == loops[l].msgs[i]
        IN  /\ m.evs <= 1
            /\ m.cb <= 1
            /\ (m.calls >= 1 /\ m.pc \notin {"handling", "deleting"}) =>
                  (m.evs = 1 /\ m.cb = 1)

\* C11: a failure of one message never changes the outcome of a sibling of
\* the same batch: whatever became of the others, every message of a
\* fetched batch has been handed to its handler, and a message whose
\* handler or delete is still pending belongs to a batch that can still
\* deliver that completion and signal its barrier.
SiblingsUnaffected ==
    \A l \in Loops : \A j \in 1..Len(loops[l].msgs) :
        LET m == loops[l].msgs[j]
        IN  /\ m.calls >= 1
            /\ m.pc \in {"handling", "deleting"} => loops[l].st = "dispatching"

\* the value an option must end up with: the one supplied, else the default
SuppliedOr(o, default) == IF o.given THEN o.v ELSE default

\* C12: construction fails exactly when queueName is missing, the handler
\* is missing, or a supplied batchSize is outside 1..10; when it succeeds
\* the consumer is stopped, its four fields hold the supplied values, or
\* the defaults 1, 1, 10, 10 where none was supplied, and no fetch has
\* been issued.
ConstructionContract ==
    op.name = "construct" =>
        /\ op.threw <=>
              \/ ~ opts.queueName.given
              \/ ~ opts.handleMessage.given
              \/ /\ opts.batchSize.given
                 /\ (opts.batchSize.v < 1 \/ opts.batchSize.v > 10)
        /\ ~ op.threw =>
              /\ stopped
              /\ config.batchSize = SuppliedOr(opts.batchSize, 1)
              /\ config.pollDelaySeconds = SuppliedOr(opts.pollDelaySeconds, 1)
              /\ config.maximumExecutionTimeSeconds =
                    SuppliedOr(opts.maximumExecutionTimeSeconds, 10)
              /\ config.authenticationErrorTimeoutSeconds =
                    SuppliedOr(opts.authenticationErrorTimeoutSeconds, 10)
              /\ out = <<>>
              /\ \A l \in Loops : loops[l] = IdleLoop

\* C13: no failure stops the loop of a started consumer: while the
\* consumer is not stopped, some poll chain has a fetch outstanding, a
\* delay timer pending, or a batch in progress with a handler or delete
\* still to complete, so that the completion of what is outstanding leads
\* to a further fetch.
LoopSurvivesFailures ==
    (Constructed /\ ~ stopped) =>
        \E l \in Loops :
            \/ loops[l].st \in {"fetching", "waiting"}
            \/ /\ loops[l].st = "dispatching"
               /\ \E i \in 1..Len(loops[l].msgs) :
                     loops[l].msgs[i].pc \in {"handling", "deleting"}

\* C14: after a stop() that no start() follows, `stopped` is emitted
\* exactly once, whatever start() and stop() calls came before: between
\* that stop() and the next start() or stop() it is never emitted a
\* second time.
StoppedEmittedOnce == stopped => stoppedEmits <= 1

\* C15: a fetch that completes with an error, an authentication error
\* included, together with at least one message emits `error` and then
\* dispatches the messages exactly as the same fetch without the error
\* does; no delay timer is armed, and whenever a batch completes the next
\* fetch (or `stopped`) follows response_processed in the same turn.
FetchErrorWithMessagesContract ==
    /\ (op.name = "getMessagesCallback" /\ op.n >= 1 /\ op.err # NoErr) =>
          LET r == handleQueueServiceResponse(
                       op.l, NoErr, [given |-> TRUE, msgs |-> Response(op.n)],
                       op.outcomes, stopped, config)
          IN  /\ out = << Emit("error", op.l, 0, "receive") >> \o r.out
              /\ loops[op.l] = r.loop
              /\ Count(out, "setTimeout") = 0
              /\ loops[op.l].st # "waiting"
    /\ Count(out, "response_processed") > 0 =>
          /\ Count(out, "setTimeout") = 0
          /\ out[Len(out) - 1].e = "response_processed"
          /\ out[Len(out)].e = IF stopped THEN "stopped" ELSE "getMessages"

\* messages arrived together with an authentication error and are in
\* the handler's hands
FetchErrorWithMessagesWitness ==
    /\ op.name = "getMessagesCallback"
    /\ op.n = MaxBatchSize
    /\ isAuthenticationError(op.err)
    /\ loops[op.l].st = "dispatching"
    /\ ~ stopped

\* C16: a fetch that completes with an error that is no authentication
\* error (status not 403, code not CredentialsError) and with no message
\* emits exactly one `error`, without a message, and delays the next fetch
\* by pollDelaySeconds, not by authenticationErrorTimeoutSeconds.
PlainFetchErrorContract ==
    ( /\ op.name = "getMessagesCallback"
      /\ op.n = 0
      /\ op.err # NoErr
      /\ op.err.statusCode # 403
      /\ op.err.code # "CredentialsError" ) =>
        /\ out = << Emit("error", op.l, 0, "receive"),
                    Out("setTimeout", op.l, 0, config.pollDelaySeconds * 1000, 0, "") >>
        /\ loops[op.l].st = "waiting"
        /\ loops[op.l].delay = config.pollDelaySeconds * 1000
        /\ config.pollDelaySeconds # config.authenticationErrorTimeoutSeconds =>
              loops[op.l].delay # config.authenticationErrorTimeoutSeconds * 1000

\* an internal error of the service with no message, on a consumer given
\* its own poll delay and its own authentication timeout
PlainFetchErrorWitness ==
    /\ op.name = "getMessagesCallback"
    /\ op.n = 0
    /\ op.err = [statusCode |-> 500, code |-> "InternalError"]
    /\ opts.pollDelaySeconds.given
    /\ opts.authenticationErrorTimeoutSeconds.given
    /\ config.pollDelaySeconds # config.authenticationErrorTimeoutSeconds
    /\ loops[op.l].st = "waiting"

\* C17: for each message, message_received is emitted before the handler
\* is invoked and the handler is invoked exactly once; the delete is
\* called at most once, only when the handler has completed without error,
\* and with the message's own id and receipt; message_processed is emitted
\* only when the delete has succeeded.
MessageLifecycle ==
    /\ \A k \in 1..Len(out) :
          LET o == out[k]
          IN  /\ o.e = "handleMessage" =>
                    /\ op.name = "getMessagesCallback"
                    /\ o.l = op.l
                    /\ CountFor(out, "handleMessage", o.l, o.m) = 1
                    /\ CountFor(out, "message_received", o.l, o.m) = 1
                    /\ \E j \in 1..(k - 1) :
                          out[j] = Emit("message_received", o.l, o.m, "")
              /\ o.e = "deleteMessage" =>
                    /\ o.a = Message(o.m).messageId
                    /\ o.b = Message(o.m).popReceipt
                    /\ CountFor(out, "deleteMessage", o.l, o.m) = 1
                    /\ \/ /\ op.name = "handlerCallback"
                          /\ op.l = o.l
                          /\ op.i = o.m
                          /\ op.oc = "done"
                       \/ /\ op.name = "getMessagesCallback"
                          /\ op.l = o.l
                          /\ o.m <= op.n
                          /\ op.outcomes[o.m] = "done"
                          /\ \E j \in 1..(k - 1) :
                                /\ out[j].e = "handleMessage"
                                /\ out[j].m = o.m
              /\ o.e = "message_processed" =>
                    /\ op.name = "deleteMessageCallback"
                    /\ op.l = o.l
                    /\ op.i = o.m
                    /\ ~ op.failed
    /\ \A l \in Loops : \A i \in 1..Len(loops[l].msgs) :
          LET m == loops[l].msgs[i]
          IN  /\ m.calls <= 1
              /\ m.recv = m.calls
              /\ m.pc # "new" => m.calls = 1
              /\ m.pc = "deleting" => m.evs = 0

\* the handler of the second message of a batch completed in a later
\* turn and the delete was called with that message's id and receipt
MessageLifecycleWitness ==
    /\ op.name = "handlerCallback"
    /\ op.oc = "done"
    /\ op.i = 2
    /\ out = << Out("deleteMessage", op.l, 2, Message(2).messageId,
                    Message(2).popReceipt, "") >>
    /\ loops[op.l].msgs[2].pc = "deleting"

\* C18: a fetch is issued only at an instant when the stopped flag is
\* false, so none is issued by the constructor or by stop(), and none
\* before the first start(); every fetch requests exactly batchSize
\* messages with a maximum execution time of maximumExecutionTimeSeconds
\* times 1000 milliseconds.
FetchRequestContract ==
    /\ \A k \in 1..Len(out) :
          out[k].e = "getMessages" =>
              /\ ~ stopped
              /\ out[k].a = config.batchSize
              /\ out[k].b = config.maximumExecutionTimeSeconds * 1000
    /\ op.name \in {"new", "stop"} => out = <<>>
    /\ op.name = "new" => \A l \in Loops : loops[l] = IdleLoop

\* a batch of a consumer with a supplied batchSize completed and the next
\* fetch was issued in the turn of the last delete callback
FetchRequestWitness ==
    /\ op.name = "deleteMessageCallback"
    /\ opts.batchSize.given
    /\ Count(out, "getMessages") = 1
    /\ out[Len(out)] = Out("getMessages", op.l, 0, opts.batchSize.v,
                           config.maximumExecutionTimeSeconds * 1000, "")

\* C19: the two delays are independent and honoured as supplied, 0
\* included: after a fetch with no message the timer is armed with the
\* supplied authenticationErrorTimeoutSeconds when the fetch failed with an
\* authentication error and with the supplied pollDelaySeconds otherwise,
\* and with the defaults 10 and 1 only when the option was not supplied.
DelayKnobsHonoured ==
    (op.name = "getMessagesCallback" /\ op.n = 0) =>
        LET auth == op.err.statusCode = 403 \/ op.err.code = "CredentialsError"
            seconds == IF auth
                       THEN SuppliedOr(opts.authenticationErrorTimeoutSeconds, 10)
                       ELSE SuppliedOr(opts.pollDelaySeconds, 1)
        IN  /\ loops[op.l].st = "waiting"
            /\ loops[op.l].delay = seconds * 1000
            /\ out[Len(out)] = Out("setTimeout", op.l, 0, seconds * 1000, 0, "")
====
